---- MODULE Spec2Model ----
(***************************************************************************)
(* Kanban board: the task store (TaskManager), its persistence (Storage),  *)
(* the rendered columns (DOM) and the drag-and-drop engine (DragDrop).     *)
(*                                                                         *)
(* Specifications over the same state:                                     *)
(*   SpecStore        the public methods of TaskManager, any argument      *)
(*   SpecStoreAny     SpecStore, with a status that is none of the three   *)
(*   SpecStoreLong    createTask with over-long titles and descriptions    *)
(*   SpecStoreUnload  SpecStore, with the page teardown                    *)
(*   SpecIds          createTask with any id the generator can return      *)
(*   SpecQuota        the store on a localStorage that runs full           *)
(*   SpecLoad         the persistence port on any stored item              *)
(*   SpecTabs         the store next to another tab writing the same key   *)
(*   SpecRace         the board next to another tab deleting tasks         *)
(*   Spec             the board driven through its event handlers          *)
(*   SpecSmall        Spec with at most MaxCards tasks                     *)
(*   SpecTag          drops on a column that carries no status tag         *)
(*   SpecInsertion    the insertion point over any column content          *)
(***************************************************************************)
EXTENDS Integers, Sequences, FiniteSets, TLC

VARIABLES
    tasks,          \* TaskManager.tasks: the global ordered task list
    storage,        \* localStorage: the item 'kanban_tasks' and whether setItem succeeds
    dom,            \* children of each column-content element, in DOM order
    counts,         \* the numbers shown in the column headers
    draggedElement, \* DragDrop.draggedElement: NoElem or the dragged card (its task id)
    placeholder,    \* DragDrop.placeholder: "null", "detached" or "attached"
    dataTransfer,   \* the payload of the browser's drag in flight, or NoDrag
    dragOverCol,    \* the column carrying the 'drag-over' class, or NoColumn
    pointer,        \* the target of the last dragover of the drag in flight: a column or Outside
    generated,      \* how many ids generateUniqueId has handed out
    board,          \* whether the document holds the column and count elements
    last            \* the call or event that produced this state, with its arguments

vars == <<tasks, storage, dom, counts, draggedElement, placeholder, dataTransfer,
          dragOverCol, pointer, generated, board, last>>

----------------------------------------------------------------------------
(* Bounds *)

\* createTask calls that succeed in one run (task objects ever allocated)
MaxTasks == 3

\* the length of the task lists handed to the persistence round trip
MaxStored == 2

\* the tasks created on the small board
MaxCards == 2

\* tasks on the board whose columns the insertion point is computed over
MaxColumn == 4

----------------------------------------------------------------------------
(* Values *)

Statuses == {"todo", "inprogress", "done"}

\* the column-content elements #todoColumn, #inprogressColumn, #doneColumn, in
\* the order renderAllTasks lists them
ColumnOrder == <<"todo", "inprogress", "done">>

\* a status value that is none of the three (any other string, or undefined)
OtherStatus == "archived"

\* a localStorage whose key was never written (getItem answers null) and that
\* accepts writes
NoItem == [present |-> FALSE, text |-> [kind |-> "array", items |-> <<>>], writable |-> TRUE]
NoElem == 0
NoDrag == 0
NoColumn == "none"
Outside == "outside"

\* a column element whose data-status is missing or is none of the three; its
\* column-content is none of the three renderAllTasks fills, so it holds no card
Untagged == "untagged"

\* getData('text/plain') of a drag that did not start on a card
ForeignPayload == 0

\* task ids
Ids == 1..MaxTasks

\* titles as character sequences, so that trim() is computed
Titles == { <<>>, <<" ", " ", " ">>, <<" ", "a", " ">> }
Descriptions == { <<"x">> }

\* the bounds handleFormSubmission puts on the trimmed title and description
MaxTitleLength == 100
MaxDescriptionLength == 500

\* a title and a description one character over the bounds
LongTitle == [i \in 1..(MaxTitleLength + 1) |-> "a"]
LongDescription == [i \in 1..(MaxDescriptionLength + 1) |-> "x"]

----------------------------------------------------------------------------
(* Sequence helpers (Array.prototype) *)

RemoveAt(s, i) == SubSeq(s, 1, i - 1) \o SubSeq(s, i + 1, Len(s))

\* s.splice(i, 0, x) with a 0-based i in 0..Len(s)
SpliceIn(s, i, x) == SubSeq(s, 1, i) \o <<x>> \o SubSeq(s, i + 1, Len(s))

\* findIndex + 1 on the sequence of the test's results: the first 1-based index
\* that holds TRUE, 0 if none
FirstTrue(hits) ==
    IF \E i \in 1..Len(hits) : hits[i]
    THEN CHOOSE i \in 1..Len(hits) : hits[i] /\ \A j \in 1..(i - 1) : ~hits[j]
    ELSE 0

RECURSIVE TrimStart(_)
TrimStart(s) == IF s # <<>> /\ Head(s) = " " THEN TrimStart(Tail(s)) ELSE s

RECURSIVE TrimEnd(_)
TrimEnd(s) == IF s # <<>> /\ s[Len(s)] = " " THEN TrimEnd(SubSeq(s, 1, Len(s) - 1)) ELSE s

\* String.prototype.trim
Trim(s) == TrimEnd(TrimStart(s))

----------------------------------------------------------------------------
(* Storage *)

\* JavaScript values as far as loadTasks can meet them: an array of task
\* objects, or a value of another kind (null, a number, a string, an object)
ArrayValue(items) == [kind |-> "array", items |-> items]
NonArray(kind) == [kind |-> kind, items |-> <<>>]

\* the SyntaxError JSON.parse throws
SyntaxError == [kind |-> "SyntaxError", items |-> <<>>]

\* a task object written out by JSON.stringify: its properties in the order
\* createTask set them
StringifyTask(task) == <<task.id, task.title, task.description, task.status>>

\* a task object read back by JSON.parse, with the properties exchanged
ParseTask_exchanged(o) == [id |-> o[1], title |-> o[3], description |-> o[2], status |-> o[4]]

\* a task object read back by JSON.parse
ParseTask(o) == [id |-> o[1], title |-> o[2], description |-> o[3], status |-> o[4]]

\* JSON.stringify of a task array: the text of a JSON array with one object per
\* task, in list order
JSONStringify(ts) == [kind |-> "array", items |-> [i \in 1..Len(ts) |-> StringifyTask(ts[i])]]

\* the kinds of text an item can hold besides the text of a task array: the
\* JSON texts null, 5, "abc" and {}, a text that is no JSON, and the empty string
OtherTextKinds == {"null", "number", "string", "object", "garbage", "empty"}

\* JSON.parse of a stored text: the value, or the SyntaxError thrown
JSONParse(text) ==
    IF text.kind = "array"
    THEN ArrayValue([i \in 1..Len(text.items) |-> ParseTask(text.items[i])])
    ELSE IF text.kind \in {"garbage", "empty"}
         THEN SyntaxError
         ELSE NonArray(text.kind)

\* Storage.saveTasks: localStorage after the call; a setItem that throws is
\* caught and leaves the item as it was
Storage_saveTasks(store, ts) ==
    IF store.writable
    THEN [store EXCEPT !.present = TRUE, !.text = JSONStringify(ts)]
    ELSE store

\* Storage.loadTasks: tasksJson ? JSON.parse(tasksJson) : [], and [] when
\* JSON.parse throws
Storage_loadTasks(store) ==
    IF ~store.present \/ store.text.kind = "empty"
    THEN ArrayValue(<<>>)
    ELSE IF JSONParse(store.text) = SyntaxError
         THEN ArrayValue(<<>>)
         ELSE JSONParse(store.text)

----------------------------------------------------------------------------
(* Rendering: the DOM computations *)

EmptyState == [kind |-> "empty", id |-> 0, dragging |-> FALSE]

\* the element this.placeholder refers to
PlaceholderNode == [kind |-> "placeholder", id |-> 0, dragging |-> FALSE]

\* a placeholder element that this.placeholder no longer refers to
OrphanPlaceholder == [kind |-> "placeholder", id |-> 1, dragging |-> FALSE]

\* createTaskElement: a new card for the task
createTaskElement(task) == [kind |-> "card", id |-> task.id, dragging |-> FALSE]

\* renderTask: the card is appended to #<status>Column when that element exists
renderTask(d, task) ==
    IF board /\ task.status \in Statuses
    THEN [d EXCEPT ![task.status] = Append(@, createTaskElement(task))]
    ELSE d

RECURSIVE RenderEach(_, _)
RenderEach(d, ts) == IF ts = <<>> THEN d ELSE RenderEach(renderTask(d, Head(ts)), Tail(ts))

\* addEmptyStateMessages
addEmptyStateMessages(d, ts) ==
    [c \in Statuses |->
        IF board /\ ~(\E i \in 1..Len(ts) : ts[i].status = c)
        THEN Append(d[c], EmptyState)
        ELSE d[c]]

\* DOMUtils.querySelector('[data-task-id="<taskId>"]'): the first card in
\* document order carrying the id, as <<column, index>>; <<>> when none
QueryCard(d, taskId) ==
    LET hit(c) == FirstTrue([i \in 1..Len(d[c]) |->
                                d[c][i].kind = "card" /\ d[c][i].id = taskId])
        k      == FirstTrue([j \in 1..Len(ColumnOrder) |-> hit(ColumnOrder[j]) # 0])
    IN  IF k = 0 THEN <<>> ELSE <<ColumnOrder[k], hit(ColumnOrder[k])>>

\* taskElement.remove() in deleteTask
RemoveCard(d, taskId) ==
    LET q == QueryCard(d, taskId)
    IN  IF q = <<>> THEN d ELSE [d EXCEPT ![q[1]] = RemoveAt(@, q[2])]

----------------------------------------------------------------------------
(* TaskManager.  A method maps the state it touches, st = [tasks, storage,   *)
(* dom, counts, placeholder], to that state after the call.                  *)

Current ==
    [tasks |-> tasks, storage |-> storage, dom |-> dom, counts |-> counts,
     placeholder |-> placeholder, calls |-> <<>>]

\* the calls a handler has made so far, in order
Log(st, op, taskId, status, position) ==
    [st EXCEPT !.calls = Append(@, [op |-> op, taskId |-> taskId, status |-> status,
                                    position |-> position])]

\* this.tasks.find(t => t.id === taskId), as a 1-based index; 0 when not found
TaskIndex(ts, taskId) == FirstTrue([i \in 1..Len(ts) |-> ts[i].id = taskId])

getTasksByStatus(ts, status) == SelectSeq(ts, LAMBDA t : t.status = status)

\* loadTasks merging instead of replacing: the tasks in memory stay, and the
\* stored tasks whose id memory does not hold are added behind them
loadTasks_merged(st) ==
    LET held == {st.tasks[i].id : i \in 1..Len(st.tasks)}
    IN  [st EXCEPT !.tasks = @ \o SelectSeq(Storage_loadTasks(st.storage).items,
                                            LAMBDA t : t.id \notin held)]

\* TaskManager.loadTasks: this.tasks takes what Storage.loadTasks answers; of a
\* value that is no array the model keeps no elements
loadTasks(st) == [st EXCEPT !.tasks = Storage_loadTasks(st.storage).items]

\* the save left out
saveTasks_skipped(st) == st

saveTasks(st) == [st EXCEPT !.storage = Storage_saveTasks(@, st.tasks)]

\* renderAllTasks: every column is emptied (which takes an attached placeholder
\* out of the document), then filled from the list
renderAllTasks(st) ==
    [st EXCEPT
        !.dom = addEmptyStateMessages(RenderEach([c \in Statuses |-> <<>>], st.tasks),
                                      st.tasks),
        !.placeholder = IF /\ board
                           /\ @ = "attached"
                           /\ \E c \in Statuses : \E k \in 1..Len(st.dom[c]) :
                                 st.dom[c][k] = PlaceholderNode
                        THEN "detached"
                        ELSE @]

updateTaskCounts(st) ==
    [st EXCEPT !.counts = IF board
                          THEN [c \in Statuses |-> Len(getTasksByStatus(st.tasks, c))]
                          ELSE @]

\* the validation without the trim: !title
TitleMissing_untrimmed(title) == title = <<>>

\* createTask's validation: !title.trim()
TitleMissing(title) == Trim(title) = <<>>

\* createTask with unshift in the place of push
createTask_unshift(st, newId, title, description) ==
    LET task   == [id |-> newId, title |-> Trim(title),
                   description |-> Trim(description), status |-> "todo"]
        pushed == [st EXCEPT !.tasks = <<task>> \o @]
        saved  == saveTasks(pushed)
        shown  == [saved EXCEPT !.dom = renderTask(@, task)]
    IN  updateTaskCounts(shown)

\* createTask past its validation, with the id generateUniqueId returned
createTask(st, newId, title, description) ==
    LET task   == [id |-> newId, title |-> Trim(title),
                   description |-> Trim(description), status |-> "todo"]
        pushed == [st EXCEPT !.tasks = Append(@, task)]
        saved  == saveTasks(pushed)
        shown  == [saved EXCEPT !.dom = renderTask(@, task)]
    IN  updateTaskCounts(shown)

\* the status update with the assignment left out
updateTaskStatus_unassigned(st, taskId, newStatus) ==
    LET i == TaskIndex(st.tasks, taskId)
    IN  IF i = 0
        THEN st
        ELSE updateTaskCounts(saveTasks(st))

\* the status update that also takes the task to the end of the list
updateTaskStatus_toEnd(st, taskId, newStatus) ==
    LET i == TaskIndex(st.tasks, taskId)
    IN  IF i = 0
        THEN st
        ELSE updateTaskCounts(saveTasks(
                 [st EXCEPT !.tasks = Append(RemoveAt(@, i),
                                             [st.tasks[i] EXCEPT !.status = newStatus])]))

updateTaskStatus(st, taskId, newStatus) ==
    LET i == TaskIndex(st.tasks, taskId)
    IN  IF i = 0
        THEN st
        ELSE updateTaskCounts(saveTasks([st EXCEPT !.tasks[i].status = newStatus]))

\* the move done as an exchange with the task now at the target position
moveTaskToPosition_exchange(st, taskId, status, position) ==
    LET taskIndex   == TaskIndex(st.tasks, taskId)
        statusIdx   == SelectSeq([k \in 1..Len(st.tasks) |-> k],
                                 LAMBDA k : st.tasks[k].status = status /\ k # taskIndex)
        target      == IF position >= 0 /\ position < Len(statusIdx)
                       THEN statusIdx[position + 1]
                       ELSE Len(st.tasks)
        exchanged   == [k \in 1..Len(st.tasks) |->
                          IF k = target THEN st.tasks[taskIndex]
                          ELSE IF k = taskIndex THEN st.tasks[target]
                          ELSE st.tasks[k]]
    IN  IF taskIndex = 0
        THEN st
        ELSE renderAllTasks(saveTasks([st EXCEPT !.tasks = exchanged]))

\* the move without the removal of the task from its old place
moveTaskToPosition_kept(st, taskId, status, position) ==
    LET taskIndex   == TaskIndex(st.tasks, taskId)
        task        == st.tasks[taskIndex]
        statusTasks == SelectSeq(st.tasks, LAMBDA t : t.status = status)
        otherTasks  == SelectSeq(st.tasks, LAMBDA t : t.status # status)
        inserted    == IF position >= 0 /\ position <= Len(statusTasks)
                       THEN SpliceIn(statusTasks, position, task)
                       ELSE Append(statusTasks, task)
    IN  IF taskIndex = 0 \/ Len(st.tasks) >= MaxTasks + 1
        THEN st
        ELSE renderAllTasks(saveTasks([st EXCEPT !.tasks = otherTasks \o inserted]))

moveTaskToPosition(st, taskId, status, position) ==
    LET taskIndex   == TaskIndex(st.tasks, taskId)
        task        == st.tasks[taskIndex]
        rest        == RemoveAt(st.tasks, taskIndex)
        statusTasks == SelectSeq(rest, LAMBDA t : t.status = status)
        otherTasks  == SelectSeq(rest, LAMBDA t : t.status # status)
        inserted    == IF position >= 0 /\ position <= Len(statusTasks)
                       THEN SpliceIn(statusTasks, position, task)
                       ELSE Append(statusTasks, task)
    IN  IF taskIndex = 0
        THEN st
        ELSE renderAllTasks(saveTasks([st EXCEPT !.tasks = otherTasks \o inserted]))

\* the delete without the check of findIndex's -1: splice(-1, 1) drops the last task
deleteTask_unchecked(st, taskId) ==
    LET found     == TaskIndex(st.tasks, taskId)
        taskIndex == IF found = 0 THEN Len(st.tasks) ELSE found
        spliced   == saveTasks([st EXCEPT !.tasks = RemoveAt(@, taskIndex)])
        removed   == [spliced EXCEPT !.dom = RemoveCard(@, taskId)]
    IN  updateTaskCounts(removed)

\* the delete that takes the last task out whichever id was found: splice(-1, 1)
deleteTask_pop(st, taskId) ==
    LET taskIndex == TaskIndex(st.tasks, taskId)
        spliced   == saveTasks([st EXCEPT !.tasks = RemoveAt(@, Len(@))])
        removed   == [spliced EXCEPT !.dom = RemoveCard(@, taskId)]
    IN  IF taskIndex = 0 THEN st ELSE updateTaskCounts(removed)

deleteTask(st, taskId) ==
    LET taskIndex == TaskIndex(st.tasks, taskId)
        spliced   == saveTasks([st EXCEPT !.tasks = RemoveAt(@, taskIndex)])
        removed   == [spliced EXCEPT !.dom = RemoveCard(@, taskId)]
    IN  IF taskIndex = 0 THEN st ELSE updateTaskCounts(removed)

\* DOMUtils.generateUniqueId: prefix, Date.now() and seven random characters;
\* the ids are numbered in the order they are handed out
generateUniqueId == generated + 1

----------------------------------------------------------------------------
(* The record of the last call or event *)

Call(op, taskId, status, position, title, raised) ==
    [op |-> op, taskId |-> taskId, status |-> status, position |-> position,
     title |-> title, raised |-> raised, calls |-> <<>>]

\* the variables a TaskManager method touches take the values of st
Becomes(result) ==
    \E st \in {result} :
        /\ tasks' = st.tasks
        /\ storage' = st.storage
        /\ dom' = st.dom
        /\ counts' = st.counts
        /\ placeholder' = st.placeholder

----------------------------------------------------------------------------
(* Initial states: the constructors have run on an empty localStorage, in a  *)
(* document with the board markup (Init) or without it (InitStore)           *)

Constructed(hasBoard) ==
    /\ board = hasBoard
    /\ storage = NoItem
    /\ LET blank == [tasks |-> <<>>, storage |-> NoItem,
                     dom |-> [c \in Statuses |-> <<>>],
                     counts |-> [c \in Statuses |-> 0], placeholder |-> "null",
                     calls |-> <<>>]
           st    == updateTaskCounts(renderAllTasks(loadTasks(blank)))
       IN  /\ tasks = st.tasks
           /\ dom = st.dom
           /\ counts = st.counts
           /\ placeholder = st.placeholder
    /\ draggedElement = NoElem
    /\ dataTransfer = NoDrag
    /\ dragOverCol = NoColumn
    /\ pointer = Outside
    /\ generated = 0
    /\ last = Call("init", 0, "", 0, <<>>, FALSE)

Init == Constructed(TRUE)

InitStore == Constructed(FALSE)

----------------------------------------------------------------------------
(* TaskManager's methods as steps *)

dragVars == <<draggedElement, dataTransfer, dragOverCol, pointer>>

CreateTask(title, description) ==
    IF TitleMissing(title)
    THEN /\ last' = Call("createTask", 0, "", 0, title, TRUE)
         /\ UNCHANGED <<tasks, storage, dom, counts, placeholder, generated, board, dragVars>>
    ELSE /\ generated < MaxTasks
         /\ Becomes(createTask(Current, generateUniqueId, title, description))
         /\ generated' = generated + 1
         /\ last' = Call("createTask", generateUniqueId, "todo", 0, title, FALSE)
         /\ UNCHANGED <<board, dragVars>>

UpdateTaskStatus(taskId, newStatus) ==
    /\ Becomes(updateTaskStatus(Current, taskId, newStatus))
    /\ last' = Call("updateTaskStatus", taskId, newStatus, 0, <<>>, FALSE)
    /\ UNCHANGED <<generated, board, dragVars>>

MoveTaskToPosition(taskId, status, position) ==
    /\ Becomes(moveTaskToPosition(Current, taskId, status, position))
    /\ last' = Call("moveTaskToPosition", taskId, status, position, <<>>, FALSE)
    /\ UNCHANGED <<generated, board, dragVars>>

\* the call is recorded with what findIndex answered (-1: not found)
DeleteTask(taskId) ==
    /\ Becomes(deleteTask(Current, taskId))
    /\ last' = Call("deleteTask", taskId, "", TaskIndex(tasks, taskId) - 1, <<>>, FALSE)
    /\ UNCHANGED <<generated, board, dragVars>>

----------------------------------------------------------------------------
(* SpecStore: TaskManager's methods called with any argument *)

\* an id of Ids that is not in the list (not yet given out, or deleted) is an
\* unknown id to the method called with it
ArgIds == Ids
ArgPositions == -1..MaxTasks

NextStore ==
    \/ \E title \in Titles, description \in Descriptions : CreateTask(title, description)
    \/ \E taskId \in ArgIds, newStatus \in Statuses : UpdateTaskStatus(taskId, newStatus)
    \/ \E taskId \in ArgIds, status \in Statuses, position \in ArgPositions :
          MoveTaskToPosition(taskId, status, position)
    \/ \E taskId \in ArgIds : DeleteTask(taskId)

SpecStore == InitStore /\ [][NextStore]_vars

\* SpecStoreAny: as SpecStore, and updateTaskStatus is also handed a status
\* that is none of the three
NextStoreAny ==
    \/ NextStore
    \/ \E taskId \in ArgIds : UpdateTaskStatus(taskId, OtherStatus)

SpecStoreAny == InitStore /\ [][NextStoreAny]_vars

\* SpecIds: createTask and deleteTask, with generateUniqueId returning any of
\* its values.  The id is made of Date.now() and Math.random() alone, and no
\* record of the ids handed out is read: a value in use can be returned.
CreateTaskWithId(newId, title, description) ==
    /\ ~TitleMissing(title)
    /\ generated < MaxTasks
    /\ Becomes(createTask(Current, newId, title, description))
    /\ generated' = generated + 1
    /\ last' = Call("createTask", newId, "todo", 0, title, FALSE)
    /\ UNCHANGED <<board, dragVars>>

NextIds ==
    \/ \E newId \in Ids, title \in Titles, description \in Descriptions :
          CreateTaskWithId(newId, title, description)
    \/ \E taskId \in ArgIds : DeleteTask(taskId)

SpecIds == InitStore /\ [][NextIds]_vars

\* SpecStoreLong: createTask and deleteTask, with titles and descriptions that
\* are over the form's bounds among the arguments
NextStoreLong ==
    \/ \E title \in Titles \cup {LongTitle}, description \in Descriptions \cup {LongDescription} :
          CreateTask(title, description)
    \/ \E taskId \in ArgIds : DeleteTask(taskId)

SpecStoreLong == InitStore /\ [][NextStoreLong]_vars

----------------------------------------------------------------------------
(* DragDrop *)

IsCard(n) == n.kind = "card"

\* the column that holds the placeholder, or NoColumn
PlaceholderColumn(d) ==
    IF \E c \in Statuses : \E k \in 1..Len(d[c]) : d[c][k] = PlaceholderNode
    THEN CHOOSE c \in Statuses : \E k \in 1..Len(d[c]) : d[c][k] = PlaceholderNode
    ELSE NoColumn

\* this.placeholder.remove()
RemovePlaceholder(d) ==
    [c \in Statuses |-> SelectSeq(d[c], LAMBDA n : n # PlaceholderNode)]

\* createPlaceholder with the removal of the previous element left out: that
\* element stays where it is, and this.placeholder no longer refers to it
createPlaceholder_kept(d, ph) ==
    [c \in Statuses |->
        [k \in 1..Len(d[c]) |-> IF d[c][k] = PlaceholderNode THEN OrphanPlaceholder ELSE d[c][k]]]

\* createPlaceholder: the DOM after the call; this.placeholder is a new,
\* detached element
createPlaceholder(d, ph) == IF ph = "null" THEN d ELSE RemovePlaceholder(d)

\* getBoundingClientRect of the k-th child of a column-content: the children
\* are stacked top to bottom, each two units high; top + height / 2
cardMiddle(k) == (k - 1) * 2 + 2 \div 2

\* the loop with the comparison widened to mouseY >= cardMiddle
RECURSIVE InsertAfterLoop_atOrBelow(_, _, _, _)
InsertAfterLoop_atOrBelow(taskCards, i, mouseY, insertAfter) ==
    IF i > Len(taskCards)
    THEN insertAfter
    ELSE IF mouseY >= cardMiddle(taskCards[i])
         THEN InsertAfterLoop_atOrBelow(taskCards, i + 1, mouseY, taskCards[i])
         ELSE insertAfter

\* handleInsertionPoint's loop over taskCards (the 1-based child indices of
\* the cards without the 'dragging' class), from the i-th on: the child index
\* of insertAfter, 0 for null
RECURSIVE InsertAfterLoop(_, _, _, _)
InsertAfterLoop(taskCards, i, mouseY, insertAfter) ==
    IF i > Len(taskCards)
    THEN insertAfter
    ELSE IF mouseY > cardMiddle(taskCards[i])
         THEN InsertAfterLoop(taskCards, i + 1, mouseY, taskCards[i])
         ELSE insertAfter

\* updatePlaceholderPosition: the placeholder leaves its place and is put
\* after the card insertAfter (identified by its task id), or first in the column
updatePlaceholderPosition(d, ph, column, insertAfterId) ==
    LET cleared == RemovePlaceholder(d)
        at      == IF insertAfterId = NoElem
                   THEN 0
                   ELSE FirstTrue([i \in 1..Len(cleared[column]) |->
                                     /\ IsCard(cleared[column][i])
                                     /\ cleared[column][i].id = insertAfterId])
    IN  IF ph = "null"
        THEN d
        ELSE IF column = Untagged
             THEN cleared
             ELSE [cleared EXCEPT ![column] = SpliceIn(@, at, PlaceholderNode)]

\* handleInsertionPoint: the DOM after the call
handleInsertionPoint(d, ph, column, mouseY) ==
    LET children    == IF column = Untagged THEN <<>> ELSE d[column]
        taskCards   == SelectSeq([k \in 1..Len(children) |-> k],
                                 LAMBDA k : IsCard(children[k]) /\ ~children[k].dragging)
        insertAfter == InsertAfterLoop(taskCards, 1, mouseY, 0)
    IN  updatePlaceholderPosition(d, ph, column,
            IF insertAfter = 0 THEN NoElem ELSE children[insertAfter].id)

\* getInsertionIndex: children.indexOf(this.placeholder) in the drop column
getInsertionIndex(d, ph, column) ==
    IF ph # "attached"
    THEN -1
    ELSE IF column = Untagged
         THEN (IF PlaceholderColumn(d) = NoColumn THEN 0 ELSE -1)
         ELSE FirstTrue([i \in 1..Len(d[column]) |-> d[column][i] = PlaceholderNode]) - 1

\* cleanupDragState: the DOM after the call
cleanupDragState(d) ==
    [c \in Statuses |->
        LET kept == SelectSeq(d[c], LAMBDA n : n # PlaceholderNode)
        IN  [k \in 1..Len(kept) |-> [kept[k] EXCEPT !.dragging = FALSE]]]

\* the source node of the drag in flight is still in the document, so that its
\* dragend event bubbles to the document's listener
SourceInDocument(d) ==
    \E c \in Statuses : \E k \in 1..Len(d[c]) : d[c][k].dragging

----------------------------------------------------------------------------
(* The board's events *)

storeVars == <<tasks, storage, counts>>

\* handleFormSubmission
SubmitForm(titleInput, descriptionInput) ==
    LET title       == Trim(titleInput)
        description == Trim(descriptionInput)
    IN  IF \/ title = <<>>
           \/ Len(title) > MaxTitleLength
           \/ Len(description) > MaxDescriptionLength
        THEN /\ last' = Call("submit", 0, "", 0, <<>>, FALSE)
             /\ UNCHANGED <<storeVars, dom, placeholder, generated, board, dragVars>>
        ELSE /\ generated < MaxTasks
             /\ Becomes(createTask(Current, generateUniqueId, title, description))
             /\ generated' = generated + 1
             /\ last' = Call("submit", generateUniqueId, "todo", 0, <<>>, FALSE)
             /\ UNCHANGED <<board, dragVars>>

\* a click on the Delete button of the card of taskId: handleDeleteTask
ClickDelete(taskId, confirmDelete) ==
    /\ QueryCard(dom, taskId) # <<>>
    /\ Becomes(IF TaskIndex(tasks, taskId) # 0 /\ confirmDelete
               THEN deleteTask(Current, taskId)
               ELSE Current)
    /\ last' = Call("delete", 0, "", 0, <<>>, FALSE)
    /\ UNCHANGED <<generated, board, dragVars>>

\* dragstart on the k-th child of a column: handleDragStart
DragStart(column, k) ==
    /\ dataTransfer = NoDrag
    /\ k \in 1..Len(dom[column])
    /\ IsCard(dom[column][k])
    /\ draggedElement' = dom[column][k].id
    /\ dataTransfer' = dom[column][k].id
    /\ dom' = createPlaceholder([dom EXCEPT ![column][k].dragging = TRUE], placeholder)
    /\ placeholder' = "detached"
    /\ pointer' = Outside
    /\ last' = Call("dragstart", 0, "", 0, <<>>, FALSE)
    /\ UNCHANGED <<storeVars, dragOverCol, generated, board>>

\* dragover with the pointer over target (a column, or Outside) at height
\* mouseY: handleDragOver
DragOver(target, mouseY) ==
    /\ dataTransfer # NoDrag
    /\ pointer' = target
    /\ last' = Call("dragover", 0, "", 0, <<>>, FALSE)
    /\ IF draggedElement = NoElem \/ target = Outside
       THEN UNCHANGED <<dom, placeholder, dragOverCol>>
       ELSE /\ dragOverCol' = target
            /\ dom' = handleInsertionPoint(dom, placeholder, target, mouseY)
            /\ placeholder' = IF placeholder = "null" THEN "null" ELSE "attached"
    /\ UNCHANGED <<storeVars, draggedElement, dataTransfer, generated, board>>

\* column.dataset.status
DataStatus(column) == IF column \in Statuses THEN column ELSE OtherStatus

\* the drop that leaves the session as it is
handleDrop_uncleaned(st, column, taskId) ==
    LET newStatus      == DataStatus(column)
        updated        == updateTaskStatus(st, taskId, newStatus)
        insertionIndex == getInsertionIndex(updated.dom, updated.placeholder, column)
    IN  moveTaskToPosition(updated, taskId, newStatus, insertionIndex)

\* the drop that moves first and updates the status afterwards
handleDrop_moveFirst(st, column, taskId) ==
    LET newStatus      == DataStatus(column)
        insertionIndex == getInsertionIndex(st.dom, st.placeholder, column)
        moved          == moveTaskToPosition(
                              Log(st, "moveTaskToPosition", taskId, newStatus, insertionIndex),
                              taskId, newStatus, insertionIndex)
        updated        == updateTaskStatus(Log(moved, "updateTaskStatus", taskId, newStatus, 0),
                                           taskId, newStatus)
        cleaned        == Log(updated, "cleanupDragState", 0, "", 0)
    IN  [cleaned EXCEPT !.dom = cleanupDragState(@), !.placeholder = "null"]

\* handleDrop past its two guards, with the pointer over a column: the state
\* after the call
handleDrop(st, column, taskId) ==
    LET newStatus      == DataStatus(column)
        updated        == updateTaskStatus(Log(st, "updateTaskStatus", taskId, newStatus, 0),
                                           taskId, newStatus)
        insertionIndex == getInsertionIndex(updated.dom, updated.placeholder, column)
        moved          == moveTaskToPosition(
                              Log(updated, "moveTaskToPosition", taskId, newStatus, insertionIndex),
                              taskId, newStatus, insertionIndex)
        cleaned        == Log(moved, "cleanupDragState", 0, "", 0)
    IN  [cleaned EXCEPT !.dom = cleanupDragState(@), !.placeholder = "null"]

\* the drag end that also takes the last task out of the list
handleDragEnd_dropping(st) ==
    [st EXCEPT !.dom = cleanupDragState(@), !.placeholder = "null",
               !.tasks = SubSeq(@, 1, Len(@) - 1)]

\* handleDragEnd, run when the dragend event reaches the document
handleDragEnd(st) ==
    [st EXCEPT !.dom = cleanupDragState(@), !.placeholder = "null"]

\* the drag ends with a drop on the target of the last dragover (Outside: not
\* on a column): the drop event, then the dragend event on the source node
Drop ==
    /\ dataTransfer # NoDrag
    /\ LET commit   == draggedElement # NoElem /\ pointer # Outside
           dropped  == IF commit THEN handleDrop(Current, pointer, dataTransfer) ELSE Current
           endSeen  == SourceInDocument(dropped.dom)
           ended    == IF endSeen THEN handleDragEnd(dropped) ELSE dropped
       IN  /\ Becomes(ended)
           /\ draggedElement' = IF commit \/ endSeen THEN NoElem ELSE draggedElement
           /\ dragOverCol' = IF commit \/ endSeen THEN NoColumn ELSE dragOverCol
           /\ last' = [Call("drop", dataTransfer, pointer,
                            IF commit
                            THEN getInsertionIndex(dom, placeholder, pointer)
                            ELSE 0,
                            <<>>, FALSE)
                          EXCEPT !.calls = ended.calls]
    /\ dataTransfer' = NoDrag
    /\ pointer' = Outside
    /\ UNCHANGED <<generated, board>>

\* the drop event of a drag that did not start on a card (a file, a text
\* selection), over target; its dragend does not reach the document
ForeignDrop(target) ==
    /\ dataTransfer = NoDrag
    /\ LET commit  == draggedElement # NoElem /\ target # Outside
           dropped == IF commit THEN handleDrop(Current, target, ForeignPayload) ELSE Current
       IN  /\ Becomes(dropped)
           /\ draggedElement' = IF commit THEN NoElem ELSE draggedElement
           /\ dragOverCol' = IF commit THEN NoColumn ELSE dragOverCol
           /\ last' = [Call("foreigndrop", ForeignPayload, target, 0, <<>>, FALSE)
                          EXCEPT !.calls = dropped.calls]
    /\ UNCHANGED <<dataTransfer, pointer, generated, board>>

\* the drag ends without a drop (cancelled, or released where nothing accepts
\* it): the dragend event on the source node
DragEnd ==
    /\ dataTransfer # NoDrag
    /\ LET endSeen == SourceInDocument(dom)
       IN  /\ Becomes(IF endSeen THEN handleDragEnd(Current) ELSE Current)
           /\ draggedElement' = IF endSeen THEN NoElem ELSE draggedElement
           /\ dragOverCol' = IF endSeen THEN NoColumn ELSE dragOverCol
    /\ dataTransfer' = NoDrag
    /\ pointer' = Outside
    /\ last' = Call("dragend", 0, "", 0, <<>>, FALSE)
    /\ UNCHANGED <<generated, board>>

\* visibilitychange with the page visible again
VisibilityChange ==
    /\ Becomes(updateTaskCounts(renderAllTasks(loadTasks(Current))))
    /\ last' = Call("visibilitychange", 0, "", 0, <<>>, FALSE)
    /\ UNCHANGED <<generated, board, dragVars>>

\* beforeunload
BeforeUnload ==
    /\ Becomes(saveTasks(Current))
    /\ last' = Call("beforeunload", 0, "", 0, <<>>, FALSE)
    /\ UNCHANGED <<generated, board, dragVars>>

MouseYs(column) == 0..(2 * Len(dom[column]) + 1)

Next ==
    \/ \E title \in Titles, description \in Descriptions : SubmitForm(title, description)
    \/ \E target \in Statuses \cup {Outside} : ForeignDrop(target)
    \/ \E taskId \in Ids, confirmDelete \in BOOLEAN : ClickDelete(taskId, confirmDelete)
    \/ \E column \in Statuses, k \in 1..(MaxTasks + 2) : DragStart(column, k)
    \/ \E column \in Statuses : \E mouseY \in MouseYs(column) : DragOver(column, mouseY)
    \/ DragOver(Outside, 0)
    \/ Drop
    \/ DragEnd
    \/ VisibilityChange
    \/ BeforeUnload

Spec == Init /\ [][Next]_vars

\* SpecSmall: the board of Spec with at most MaxCards tasks created
NextSmall ==
    \/ /\ generated < MaxCards
       /\ \E title \in Titles, description \in Descriptions : SubmitForm(title, description)
    \/ \E target \in Statuses \cup {Outside} : ForeignDrop(target)
    \/ \E taskId \in 1..MaxCards, confirmDelete \in BOOLEAN : ClickDelete(taskId, confirmDelete)
    \/ \E column \in Statuses, k \in 1..(MaxCards + 2) : DragStart(column, k)
    \/ \E column \in Statuses : \E mouseY \in MouseYs(column) : DragOver(column, mouseY)
    \/ DragOver(Outside, 0)
    \/ Drop
    \/ DragEnd
    \/ VisibilityChange
    \/ BeforeUnload

SpecSmall == Init /\ [][NextSmall]_vars

\* SpecTag: a board whose markup has a fourth column without a recognised
\* data-status; cards are created, dragged and dropped
NextTag ==
    \/ /\ generated < MaxCards
       /\ \E title \in Titles, description \in Descriptions : SubmitForm(title, description)
    \/ \E column \in Statuses, k \in 1..(MaxCards + 2) : DragStart(column, k)
    \/ \E column \in Statuses : \E mouseY \in MouseYs(column) : DragOver(column, mouseY)
    \/ DragOver(Untagged, 0)
    \/ DragOver(Outside, 0)
    \/ Drop
    \/ DragEnd

SpecTag == Init /\ [][NextTag]_vars

----------------------------------------------------------------------------
(* SpecStoreUnload: TaskManager's methods, and the page teardown *)

NextStoreUnload ==
    \/ NextStore
    \/ BeforeUnload

SpecStoreUnload == InitStore /\ [][NextStoreUnload]_vars

----------------------------------------------------------------------------
(* SpecQuota: tasks are created and deleted, localStorage runs full (setItem  *)
(* throws QuotaExceededError from then on), the page comes back to view       *)

QuotaExceeded ==
    /\ storage.writable
    /\ storage' = [storage EXCEPT !.writable = FALSE]
    /\ last' = Call("quota", 0, "", 0, <<>>, FALSE)
    /\ UNCHANGED <<tasks, dom, counts, placeholder, generated, board, dragVars>>

NextQuota ==
    \/ \E title \in Titles, description \in Descriptions : CreateTask(title, description)
    \/ \E taskId \in ArgIds : DeleteTask(taskId)
    \/ QuotaExceeded
    \/ VisibilityChange

SpecQuota == InitStore /\ [][NextQuota]_vars

----------------------------------------------------------------------------
(* SpecLoad: the persistence port.  A TaskManager holding any task list meets *)
(* a localStorage holding any item; it saves its list and loads it.           *)

StoredTask == [id : 1..MaxStored, title : {<<"a">>}, description : {<<"x">>}, status : Statuses]

\* the task lists of at most MaxStored tasks with distinct ids
TaskLists ==
    {ts \in UNION {[1..n -> StoredTask] : n \in 0..MaxStored} :
        \A i, j \in 1..Len(ts) : i # j => ts[i].id # ts[j].id}

\* what the key can hold: nothing, the text of a task array, or a text of
\* another kind
StoredItems ==
    {NoItem}
    \cup {[present |-> TRUE, text |-> JSONStringify(ts), writable |-> TRUE] : ts \in TaskLists}
    \cup {[present |-> TRUE, text |-> [kind |-> k, items |-> <<>>], writable |-> TRUE] :
             k \in OtherTextKinds}

InitLoad ==
    /\ board = FALSE
    /\ storage \in StoredItems
    /\ tasks \in TaskLists
    /\ dom = [c \in Statuses |-> <<>>]
    /\ counts = [c \in Statuses |-> 0]
    /\ placeholder = "null"
    /\ draggedElement = NoElem
    /\ dataTransfer = NoDrag
    /\ dragOverCol = NoColumn
    /\ pointer = Outside
    /\ generated = 0
    /\ last = Call("init", 0, "", 0, <<>>, FALSE)

\* TaskManager.saveTasks
SaveTasks ==
    /\ Becomes(saveTasks(Current))
    /\ last' = Call("saveTasks", 0, "", 0, <<>>, FALSE)
    /\ UNCHANGED <<generated, board, dragVars>>

\* TaskManager.loadTasks
LoadTasks ==
    /\ Becomes(loadTasks(Current))
    /\ last' = Call("loadTasks", 0, "", 0, <<>>, FALSE)
    /\ UNCHANGED <<generated, board, dragVars>>

NextLoad ==
    \/ SaveTasks
    \/ LoadTasks

SpecLoad == InitLoad /\ [][NextLoad]_vars

----------------------------------------------------------------------------
(* SpecInsertion: handleInsertionPoint over any column content.  The board  *)
(* shows up to MaxColumn tasks spread over two columns, one of their cards   *)
(* is being dragged, and the insertion point is computed for any column and  *)
(* any pointer height, again and again.                                      *)

\* the boards: tasks 1..n in this order, each in one of two columns
InsertionBoards ==
    UNION {[1..n -> [id : 1..n, title : {<<"a">>}, description : {<<"x">>},
                     status : {"todo", "inprogress"}]] : n \in 1..MaxColumn}

InitInsertion ==
    /\ board = TRUE
    /\ \E ts \in InsertionBoards, dragged \in 1..MaxColumn :
          /\ \A i \in 1..Len(ts) : ts[i].id = i
          /\ dragged <= Len(ts)
          /\ LET blank == [tasks |-> ts, storage |-> Storage_saveTasks(NoItem, ts),
                           dom |-> [c \in Statuses |-> <<>>],
                           counts |-> [c \in Statuses |-> 0], placeholder |-> "null",
                           calls |-> <<>>]
                 st    == updateTaskCounts(renderAllTasks(blank))
                 from  == ts[dragged].status
                 k     == FirstTrue([i \in 1..Len(st.dom[from]) |-> st.dom[from][i].id = dragged])
             IN  /\ tasks = st.tasks
                 /\ storage = st.storage
                 /\ dom = [st.dom EXCEPT ![from][k].dragging = TRUE]
                 /\ counts = st.counts
          /\ draggedElement = dragged
          /\ dataTransfer = dragged
    /\ placeholder = "detached"
    /\ dragOverCol = NoColumn
    /\ pointer = Outside
    /\ generated = MaxColumn
    /\ last = Call("dragstart", 0, "", 0, <<>>, FALSE)

\* handleInsertionPoint(e, column) with e.clientY = mouseY
HandleInsertionPoint(column, mouseY) ==
    /\ dom' = handleInsertionPoint(dom, placeholder, column, mouseY)
    /\ placeholder' = "attached"
    /\ last' = Call("handleInsertionPoint", 0, column, mouseY, <<>>, FALSE)
    /\ UNCHANGED <<storeVars, draggedElement, dataTransfer, dragOverCol, pointer,
                   generated, board>>

NextInsertion ==
    \E column \in Statuses : \E mouseY \in MouseYs(column) : HandleInsertionPoint(column, mouseY)

SpecInsertion == InitInsertion /\ [][NextInsertion]_vars

----------------------------------------------------------------------------
(* SpecTabs: the page next to another tab of the same application.  The    *)
(* other tab saves its own task list under the same key at any moment; this *)
(* page changes and deletes the tasks it holds, and becomes visible again.  *)

\* Storage.saveTasks of the other tab's TaskManager
OtherTabWrites(ts) ==
    /\ storage' = Storage_saveTasks(storage, ts)
    /\ last' = Call("othertab", 0, "", 0, <<>>, FALSE)
    /\ UNCHANGED <<tasks, dom, counts, placeholder, generated, board, dragVars>>

NextTabs ==
    \/ \E ts \in TaskLists : OtherTabWrites(ts)
    \/ VisibilityChange
    \/ \E taskId \in 1..MaxStored, newStatus \in Statuses : UpdateTaskStatus(taskId, newStatus)
    \/ \E taskId \in 1..MaxStored : DeleteTask(taskId)

SpecTabs == InitStore /\ [][NextTabs]_vars

----------------------------------------------------------------------------
(* SpecRace: the board in tab A next to a tab B of the same application on  *)
(* the same localStorage.  Tab A creates, drags and drops cards, and reloads *)
(* when it becomes visible; tab B, showing the stored list, deletes a task.  *)

\* deleteTask(taskId) in tab B, whose list is the stored one: the task is
\* spliced out and the list saved under the same key
OtherTabDeletes(taskId) ==
    LET held == Storage_loadTasks(storage).items
        k    == TaskIndex(held, taskId)
    IN  /\ storage.present
        /\ k # 0
        /\ storage' = Storage_saveTasks(storage, RemoveAt(held, k))
        /\ last' = Call("othertabdelete", taskId, "", 0, <<>>, FALSE)
        /\ UNCHANGED <<tasks, dom, counts, placeholder, generated, board, dragVars>>

NextRace ==
    \/ /\ generated < MaxCards
       /\ \E title \in Titles, description \in Descriptions : SubmitForm(title, description)
    \/ \E column \in Statuses, k \in 1..(MaxCards + 2) : DragStart(column, k)
    \/ \E column \in Statuses : \E mouseY \in MouseYs(column) : DragOver(column, mouseY)
    \/ DragOver(Outside, 0)
    \/ Drop
    \/ DragEnd
    \/ VisibilityChange
    \/ \E taskId \in 1..MaxCards : OtherTabDeletes(taskId)

SpecRace == Init /\ [][NextRace]_vars

----------------------------------------------------------------------------
(* Properties of TaskManager's methods.  A step is recognised by the call it *)
(* records in last'; unprimed variables are the state before the call.       *)

MoveStep == last'.op = "moveTaskToPosition"
UpdateStep == last'.op = "updateTaskStatus"
DeleteStep == last'.op = "deleteTask"
CreateStep == last'.op = "createTask"

Known(ts, taskId) == TaskIndex(ts, taskId) # 0

TaskIds(ts) == {ts[i].id : i \in 1..Len(ts)}

StatusOf(ts, taskId) == ts[TaskIndex(ts, taskId)].status

\* X precedes Y in the list
Precedes(ts, X, Y) == TaskIndex(ts, X) < TaskIndex(ts, Y)

\* the tasks other than taskId whose status is status
OthersWithStatus(ts, taskId, status) ==
    SelectSeq(ts, LAMBDA t : t.status = status /\ t.id # taskId)

Without(ts, taskId) == SelectSeq(ts, LAMBDA t : t.id # taskId)

\* taskId is the element at 0-based index p of ts
IsAt(ts, p, taskId) == p >= 0 /\ p < Len(ts) /\ ts[p + 1].id = taskId

\* C1: after moveTaskToPosition(id, S, p) on a known id with 0 <= p <= n, n the
\* number of other tasks with status S, the moved task is the element at index
\* p of getTasksByStatus(S).
C1_MovedTaskAtPosition ==
    [][ ( /\ MoveStep
          /\ Known(tasks, last'.taskId)
          /\ last'.position >= 0
          /\ last'.position <= Len(OthersWithStatus(tasks, last'.taskId, last'.status)) )
        => IsAt(getTasksByStatus(tasks', last'.status), last'.position, last'.taskId) ]_vars

\* C2: moveTaskToPosition(id, S, p) on a task whose status differs from S leaves
\* the task with status S.
C2_MoveSetsStatus ==
    [][ ( /\ MoveStep
          /\ Known(tasks, last'.taskId)
          /\ StatusOf(tasks, last'.taskId) # last'.status )
        => StatusOf(tasks', last'.taskId) = last'.status ]_vars

\* X and Y are tasks other than taskId, X before Y in the list ts
OtherPairs(ts, taskId) ==
    {xy \in (1..Len(ts)) \X (1..Len(ts)) :
        xy[1] < xy[2] /\ ts[xy[1]].id # taskId /\ ts[xy[2]].id # taskId}

C4_ColumnOrderKept ==
    [][ MoveStep =>
          \A c \in Statuses :
              Without(getTasksByStatus(tasks', c), last'.taskId)
                = Without(getTasksByStatus(tasks, c), last'.taskId) ]_vars

\* a move into a column that holds two other tasks, with a task elsewhere
C4_Witness ==
    /\ last.op = "moveTaskToPosition"
    /\ Known(tasks, last.taskId)
    /\ Len(OthersWithStatus(tasks, last.taskId, last.status)) >= 2
    /\ last.position = 0
    /\ IsAt(getTasksByStatus(tasks, last.status), 0, last.taskId)

\* C5: moveTaskToPosition(id, S, p) on a known id with p negative or p greater
\* than the number of other tasks with status S raises nothing and leaves the
\* task as the last entry of getTasksByStatus(S).
C5_ClampAppends ==
    [][ ( /\ MoveStep
          /\ Known(tasks, last'.taskId)
          /\ \/ last'.position < 0
             \/ last'.position > Len(OthersWithStatus(tasks, last'.taskId, last'.status)) )
        => /\ ~last'.raised
           /\ IsAt(getTasksByStatus(tasks', last'.status),
                   Len(OthersWithStatus(tasks, last'.taskId, last'.status)),
                   last'.taskId) ]_vars

\* C6: applying moveTaskToPosition(id, S, p) a second time to the state the
\* first application produced leaves the global list as it is.
C6_MoveIdempotent ==
    last.op = "moveTaskToPosition"
    => moveTaskToPosition(Current, last.taskId, last.status, last.position).tasks = tasks

\* a move of a known task that changed the list of three tasks
C6_Witness ==
    /\ last.op = "moveTaskToPosition"
    /\ Known(tasks, last.taskId)
    /\ Len(tasks) = 3
    /\ last.position = 1
    /\ IsAt(getTasksByStatus(tasks, last.status), 1, last.taskId)

\* C9: updateTaskStatus, deleteTask and moveTaskToPosition with an id that is
\* not in the list raise nothing and leave the list and the stored list as
\* they are.
C9_UnknownIdNoOp ==
    [][ ( /\ MoveStep \/ UpdateStep \/ DeleteStep
          /\ ~Known(tasks, last'.taskId) )
        => /\ tasks' = tasks
           /\ storage' = storage
           /\ ~last'.raised ]_vars

\* a status update or a move (neither removes a task) was called on a list of
\* tasks with an id that is not in it
C9_Witness ==
    /\ last.op \in {"moveTaskToPosition", "updateTaskStatus"}
    /\ ~Known(tasks, last.taskId)
    /\ Len(tasks) >= 2

\* C10: createTask with a title that is empty or blank raises, appends no task
\* and writes nothing to storage.
C10_BlankTitleRejected ==
    [][ ( /\ CreateStep
          /\ \A k \in 1..Len(last'.title) : last'.title[k] = " " )
        => /\ last'.raised
           /\ tasks' = tasks
           /\ storage' = storage ]_vars

\* createTask("   ", "x") was called on a list that holds a task
C10_Witness ==
    /\ last.op = "createTask"
    /\ last.title = <<" ", " ", " ">>
    /\ last.raised
    /\ Len(tasks) >= 1

\* C8: every task's status is one of the three column statuses.
C8_StatusEnumerated ==
    \A i \in 1..Len(tasks) : tasks[i].status \in Statuses

\* createTask returned a task
CreatedStep == CreateStep /\ ~last'.raised

\* C11: the id of the task a successful createTask returns is the id of no
\* task created or loaded before in the same store instance; stated for the
\* tasks that are still in the list.
C11_CreatedIdFresh ==
    [][ CreatedStep => last'.taskId \notin TaskIds(tasks) ]_vars

\* C12: a successful createTask makes the list one longer, its last element is
\* the new task with status 'todo', and every task that was in the list keeps
\* its index and its status.
C12_CreateAppends ==
    [][ CreatedStep =>
          /\ Len(tasks') = Len(tasks) + 1
          /\ tasks'[Len(tasks')].id = last'.taskId
          /\ tasks'[Len(tasks')].status = "todo"
          /\ \A i \in 1..Len(tasks) :
                /\ tasks'[i].id = tasks[i].id
                /\ tasks'[i].status = tasks[i].status ]_vars

\* a task was created behind two tasks that are no longer 'todo'
C12_Witness ==
    /\ last.op = "createTask"
    /\ ~last.raised
    /\ Len(tasks) = 3
    /\ tasks[3].id = last.taskId
    /\ tasks[1].status = "done"
    /\ tasks[2].status = "inprogress"

\* C13: every task in the list has a non-empty title of at most 100
\* characters and a description of at most 500 characters, createTask having
\* refused the others.
C13_FieldBounds ==
    \A i \in 1..Len(tasks) :
        /\ Len(tasks[i].title) >= 1
        /\ Len(tasks[i].title) <= MaxTitleLength
        /\ Len(tasks[i].description) <= MaxDescriptionLength

\* the view getTasksByStatus(status) holds the task taskId
InView(ts, status, taskId) ==
    \E i \in 1..Len(getTasksByStatus(ts, status)) : getTasksByStatus(ts, status)[i].id = taskId

\* C14: after updateTaskStatus(T.id, S) on a task T of the list, the view
\* getTasksByStatus(S) holds T and the view of no other status holds T.
C14_UpdateMovesView ==
    [][ ( /\ UpdateStep
          /\ Known(tasks, last'.taskId) )
        => \A c \in Statuses :
              InView(tasks', c, last'.taskId) <=> (c = last'.status) ]_vars

\* a task was given the status 'done' while another task is 'todo'
C14_Witness ==
    /\ last.op = "updateTaskStatus"
    /\ last.status = "done"
    /\ InView(tasks, "done", last.taskId)
    /\ \E i \in 1..Len(tasks) : tasks[i].status = "todo"

\* C15: updateTaskStatus leaves the sequence of ids of the list and the
\* status of every task other than the target as they were.
C15_UpdateFrame ==
    [][ UpdateStep =>
          /\ Len(tasks') = Len(tasks)
          /\ \A i \in 1..Len(tasks) :
                /\ tasks'[i].id = tasks[i].id
                /\ tasks[i].id # last'.taskId => tasks'[i].status = tasks[i].status ]_vars

\* the first of three tasks was given the status 'inprogress', the others
\* being 'done' and 'todo'
C15_Witness ==
    /\ last.op = "updateTaskStatus"
    /\ Len(tasks) = 3
    /\ tasks[1].id = last.taskId
    /\ last.status = "inprogress"
    /\ tasks[1].status = "inprogress"
    /\ tasks[2].status = "done"
    /\ tasks[3].status = "todo"

\* C16: deleteTask(id) on an id of the list leaves the previous list with that
\* one element taken out, the others in the same order and with the same
\* statuses, and the id is in no getTasksByStatus view.
C16_DeleteRemovesOne ==
    [][ ( /\ DeleteStep
          /\ Known(tasks, last'.taskId) )
        => /\ Len(tasks') = Len(tasks) - 1
           /\ tasks' = Without(tasks, last'.taskId)
           /\ \A c \in Statuses : ~InView(tasks', c, last'.taskId) ]_vars

\* the second of three tasks was deleted, which leaves two tasks of different
\* statuses
C16_Witness ==
    /\ last.op = "deleteTask"
    /\ last.position = 1
    /\ Len(tasks) = 2
    /\ tasks[1].status # tasks[2].status

----------------------------------------------------------------------------
(* Properties of the persistence *)

\* C17: after createTask, updateTaskStatus, moveTaskToPosition or deleteTask
\* has returned, and after the beforeunload handler has run, the list read
\* from storage equals the in-memory list; the beforeunload handler has
\* written the item.
C17_SavedAfterMutation ==
    /\ last.op \in {"createTask", "updateTaskStatus", "moveTaskToPosition", "deleteTask",
                     "beforeunload"}
          => Storage_loadTasks(storage) = ArrayValue(tasks)
    /\ last.op = "beforeunload" => storage.present

\* a move has rearranged a list of three tasks, which is in storage
C17_Witness ==
    /\ last.op = "moveTaskToPosition"
    /\ Len(tasks) = 3
    /\ tasks[1].id = 3
    /\ tasks[3].id = 1
    /\ storage.present
    /\ Len(storage.text.items) = 3

C19_MemoryAuthoritative ==
    [][ ~storage.writable =>
          /\ CreatedStep => Len(tasks') = Len(tasks) + 1
          /\ last'.op = "visibilitychange" => tasks' = tasks ]_vars

\* C20: Storage.loadTasks answers an array, and the empty array when the
\* item is absent or holds anything but the text of a task array.
C20_LoadYieldsList ==
    /\ Storage_loadTasks(storage).kind = "array"
    /\ (~storage.present \/ storage.text.kind # "array")
          => Storage_loadTasks(storage) = ArrayValue(<<>>)

----------------------------------------------------------------------------
(* Properties of the drop *)

\* the drag ends with a drop on a column while the engine holds the dragged
\* card of the task in the payload and the marker stands in that column
ValidDropStep ==
    /\ last'.op = "drop"
    /\ dataTransfer # NoDrag
    /\ draggedElement = dataTransfer
    /\ pointer \in Statuses
    /\ placeholder = "attached"
    /\ PlaceholderColumn(dom) = pointer
    /\ Known(tasks, dataTransfer)

\* the cards of tasks other than taskId that stand above the marker in its column
SiblingsAboveMarker(d, column, taskId) ==
    LET children == d[column]
        marker   == FirstTrue([i \in 1..Len(children) |-> children[i] = PlaceholderNode])
    IN  Cardinality({k \in 1..(marker - 1) :
                        IsCard(children[k]) /\ children[k].id # taskId})

\* C7: after a valid drop of task T on the column of status S, T has status S
\* and is the element of getTasksByStatus(S) at the index k, the number of
\* cards of other tasks above the marker the last drag-over placed.
C7_DropAtMarker ==
    [][ ValidDropStep =>
          /\ StatusOf(tasks', dataTransfer) = pointer
          /\ IsAt(getTasksByStatus(tasks', pointer),
                  SiblingsAboveMarker(dom, pointer, dataTransfer),
                  dataTransfer) ]_vars

----------------------------------------------------------------------------
(* Properties of the set of tasks *)

\* no id occurs twice in the list
NoDuplicateIds(ts) == \A i, j \in 1..Len(ts) : ts[i].id = ts[j].id => i = j

\* C30: from a list without duplicate ids every operation leads to a list
\* without duplicate ids, and moveTaskToPosition and updateTaskStatus lead to
\* a list of the same length holding the same ids
C30_NoLossNoDuplicate ==
    [][ NoDuplicateIds(tasks)
        => /\ NoDuplicateIds(tasks')
           /\ (MoveStep \/ UpdateStep)
              => (Len(tasks') = Len(tasks) /\ TaskIds(tasks') = TaskIds(tasks)) ]_vars

----------------------------------------------------------------------------
(* Properties of the insertion point *)

\* the child indices of the non-dragged sibling cards of a column content
Siblings(children) ==
    {k \in 1..Len(children) : IsCard(children[k]) /\ ~children[k].dragging}

\* the child index of the marker in a column content, 0 when it is not there
MarkerAt(children) == FirstTrue([k \in 1..Len(children) |-> children[k] = PlaceholderNode])

\* C26: handleInsertionPoint at pointer height y puts the marker behind as
\* many non-dragged sibling cards as have their midpoint strictly above y (a
\* card whose midpoint is y comes after the marker), measured on the layout
\* the call finds, wherever the marker was before; in a column holding
\* nothing but sibling cards and the marker, that number is the marker's index
C26_InsertionIndex ==
    [][ last'.op = "handleInsertionPoint"
        => LET column   == last'.status
               y        == last'.position
               above    == Cardinality({k \in Siblings(dom[column]) : cardMiddle(k) < y})
               marker   == MarkerAt(dom'[column])
           IN  /\ marker # 0
               /\ Cardinality({k \in Siblings(dom'[column]) : k < marker}) = above
               /\ (\A k \in 1..Len(dom[column]) :
                       k \in Siblings(dom[column]) \/ dom[column][k] = PlaceholderNode)
                  => getInsertionIndex(dom', placeholder', column) = above ]_vars

\* three sibling cards and the marker, after a pointer on the second child's
\* midpoint: the marker is at index 1, before that card
C26_Witness ==
    /\ last.op = "handleInsertionPoint"
    /\ last.position = cardMiddle(2)
    /\ Cardinality(Siblings(dom[last.status])) = 3
    /\ Len(dom[last.status]) = 4
    /\ getInsertionIndex(dom, placeholder, last.status) = 1

----------------------------------------------------------------------------
(* Properties of the reload on visibility *)

\* C25: right after the visibilitychange handler, the task list in memory is
\* the list held in storage: the stored text is the text of the list in
\* memory, and with no item stored the list is empty, whatever the list in
\* memory was before and whatever the other tab wrote last
C25_VisibleReloads ==
    [][ last'.op = "visibilitychange"
        => IF storage'.present
           THEN storage'.text = JSONStringify(tasks')
           ELSE tasks' = <<>> ]_vars

\* the page holds two tasks after a reload: the list another tab wrote
C25_Witness == last.op = "visibilitychange" /\ Len(tasks) = 2 /\ storage.present

----------------------------------------------------------------------------
(* Properties of the drag session *)

\* the engine is idle: no dragged element, no placeholder, no marker in the DOM
Idle ==
    /\ draggedElement = NoElem
    /\ placeholder = "null"
    /\ dragOverCol = NoColumn
    /\ \A c \in Statuses : \A k \in 1..Len(dom[c]) :
          /\ dom[c][k].kind # "placeholder"
          /\ ~dom[c][k].dragging

\* handleDrop gets past its two guards: a dragged element is held and the
\* pointer is over a column
Commits == draggedElement # NoElem /\ pointer # Outside

\* C21: the events of a gesture that commits nothing (drag-start, drag-over,
\* drag-end, a drop outside every column or with no dragged element held, the
\* drop of a drag that did not start on a card) leave the task list and the
\* stored list as they are.
C21_NoCommitUntouched ==
    [][ ( \/ last'.op \in {"dragstart", "dragover", "dragend", "foreigndrop"}
          \/ last'.op = "drop" /\ ~Commits )
        => /\ tasks' = tasks
           /\ storage' = storage ]_vars

\* a drag ended with a drop outside every column, on a board of two tasks of
\* different statuses
C21_Witness ==
    /\ last.op = "drop"
    /\ last.status = Outside
    /\ Len(tasks) = 2
    /\ tasks[1].status # tasks[2].status

\* C22: a drop on a column without a recognised status tag calls neither
\* updateTaskStatus nor moveTaskToPosition and leaves the task list as it is.
C22_UntaggedDropCancelled ==
    [][ ( /\ last'.op = "drop"
          /\ draggedElement # NoElem
          /\ pointer = Untagged )
        => /\ \A i \in 1..Len(last'.calls) :
                last'.calls[i].op \notin {"updateTaskStatus", "moveTaskToPosition"}
           /\ tasks' = tasks ]_vars

\* C23: after the gesture has ended, by a drop or by a drag-end, the engine
\* is idle.
C23_IdleAfterGesture ==
    last.op \in {"drop", "dragend"} => Idle

\* C24: a valid drop of a task that is no longer in the list leaves the task
\* list and the stored list as they are, raises nothing, and leaves the
\* engine idle.
C24_DropOfDeletedTask ==
    [][ ( /\ last'.op = "drop"
          /\ Commits
          /\ pointer \in Statuses
          /\ ~Known(tasks, dataTransfer) )
        => /\ tasks' = tasks
           /\ storage' = storage
           /\ ~last'.raised
           /\ Idle' ]_vars

\* a drop on a column went through its three calls for a task that is not in
\* the list, which holds another task
C24_Witness ==
    /\ last.op = "drop"
    /\ last.status \in Statuses
    /\ Len(last.calls) = 3
    /\ ~Known(tasks, last.taskId)
    /\ Len(tasks) >= 1

\* C27: at a drag-over that computes an insertion point, no card of the
\* dragged task is among the cards handleInsertionPoint measures (the cards
\* of the column without the 'dragging' class).
C27_DraggedCardExcluded ==
    [][ ( /\ last'.op = "dragover"
          /\ draggedElement # NoElem
          /\ pointer' \in Statuses )
        => \A k \in 1..Len(dom[pointer']) :
              ( /\ IsCard(dom[pointer'][k])
                /\ dom[pointer'][k].id = draggedElement )
              => dom[pointer'][k].dragging ]_vars

\* C28: a valid drop calls updateTaskStatus(taskId, status), then
\* moveTaskToPosition(taskId, status, index) with the same id and status and
\* the index read from the marker, then cleanupDragState, and nothing else.
C28_UpdateBeforeMove ==
    [][ ( /\ last'.op = "drop"
          /\ Commits
          /\ pointer \in Statuses )
        => last'.calls =
             << [op |-> "updateTaskStatus", taskId |-> dataTransfer, status |-> pointer,
                 position |-> 0],
                [op |-> "moveTaskToPosition", taskId |-> dataTransfer, status |-> pointer,
                 position |-> getInsertionIndex(dom, placeholder, pointer)],
                [op |-> "cleanupDragState", taskId |-> 0, status |-> "", position |-> 0] >> ]_vars

\* a task of the list was dropped on the 'done' column
C28_Witness ==
    /\ last.op = "drop"
    /\ last.status = "done"
    /\ Len(last.calls) = 3
    /\ Known(tasks, last.taskId)
    /\ StatusOf(tasks, last.taskId) = "done"
    /\ Len(tasks) = 2

\* C29: the document holds at most one element with the 'dragging' class and
\* at most one placeholder element.
C29_OneSession ==
    /\ Cardinality({ck \in Statuses \X (1..(MaxTasks + 2)) :
                       /\ ck[2] <= Len(dom[ck[1]])
                       /\ dom[ck[1]][ck[2]].dragging}) <= 1
    /\ Cardinality({ck \in Statuses \X (1..(MaxTasks + 2)) :
                       /\ ck[2] <= Len(dom[ck[1]])
                       /\ dom[ck[1]][ck[2]].kind = "placeholder"}) <= 1

\* a drag has started while the column marker of a session that was never
\* cleaned up is still set
C29_Witness ==
    /\ last.op = "dragstart"
    /\ dragOverCol # NoColumn
    /\ draggedElement # NoElem

----------------------------------------------------------------------------
(* Properties of the rendered board *)

\* the task ids of the cards of a column content, in DOM order
CardIds(children) ==
    LET cards == SelectSeq(children, IsCard)
    IN  [k \in 1..Len(cards) |-> cards[k].id]

\* the task ids of a list of tasks, in order
IdsOf(ts) == [k \in 1..Len(ts) |-> ts[k].id]

\* the columns whose cards include one of the task
ShownIn(d, taskId) ==
    {c \in Statuses : \E k \in 1..Len(d[c]) : IsCard(d[c][k]) /\ d[c][k].id = taskId}

\* an operation of the user interface has finished
UIOperationDone == last.op \in {"submit", "delete", "drop", "visibilitychange"}

\* C31: with the engine idle after an operation of the user interface, the
\* cards of each column are the tasks of that status in list order, every
\* task of the list is shown in exactly one column, and each displayed count
\* is the length of that column's view
C31_BoardIsProjection ==
    (Idle /\ UIOperationDone)
    => /\ \A c \in Statuses :
            /\ CardIds(dom[c]) = IdsOf(getTasksByStatus(tasks, c))
            /\ counts[c] = Len(getTasksByStatus(tasks, c))
       /\ \A i \in 1..Len(tasks) : Cardinality(ShownIn(dom, tasks[i].id)) = 1

----------------------------------------------------------------------------
(* Properties of two tabs on one storage *)

\* the ids of the tasks the stored item holds
StoredIds(store) == TaskIds(Storage_loadTasks(store).items)

\* C32: when tab B has deleted and saved the task whose drag is in flight in
\* tab A, tab A's drop raises nothing and the task is still absent from
\* storage after it
C32_DeletedStaysDeleted ==
    [][ (last.op = "othertabdelete" /\ last.taskId = dataTransfer /\ last'.op = "drop")
        => /\ ~last'.raised
           /\ dataTransfer \notin StoredIds(storage') ]_vars

====
